---------------------------- MODULE Spec2Model ----------------------------
(* scripts/fetch_daily_definitions.py of word-journey: the daily word pool *)
(* (build_daily_pool), the definition heuristic (best_definition) and the  *)
(* batch driver (main).                                                    *)
(*                                                                         *)
(* A Python str is a sequence of one-character strings, so that upper(),   *)
(* lower(), startswith() and the code-point order of sorted() are computed *)
(* and not assumed.  Words and texts are ASCII letters and spaces.         *)
(*                                                                         *)
(* Three specifications share the variables:                               *)
(*   SpecPool  build_daily_pool alone, on bounded word lists               *)
(*   SpecDef   best_definition alone, on bounded sense lists               *)
(*   Spec      main(): the whole run, and reruns on the same inputs        *)
EXTENDS Integers, Sequences, FiniteSets, TLC

VARIABLES
    validFile,     \* valid_words.json: [exists, root]
    levelFile,     \* words.json: [exists, root]
    lexicon,       \* WordNet: lowercase word -> ranked sequence of senses
    outFile,       \* daily_word_definitions.json: [exists, data]
    pc,            \* position of the run
    pool,          \* main: pool
    words_sorted,  \* main: words_sorted
    i,             \* main: number of words of words_sorted visited so far
    definitions,   \* main: definitions, an insertion-ordered dict
    no_def_count,  \* main: no_def_count
    visited,       \* the words handed to best_definition so far, in order
    wrote,         \* whether this run has written OUTPUT_FILE
    runs,          \* number of the current run
    prev,          \* before this run: [wrote, pool] of the previous run, and
                   \* data, what OUTPUT_FILE held when this run started
    defWord,       \* SpecDef: the argument of best_definition
    defResult      \* SpecDef: what best_definition returned

vars == << validFile, levelFile, lexicon, outFile, pc, pool, words_sorted, i,
           definitions, no_def_count, visited, wrote, runs, prev, defWord,
           defResult >>

---------------------------------------------------------------------------
(* Python str                                                              *)

Uppers ==
    << "A","B","C","D","E","F","G","H","I","J","K","L","M",
       "N","O","P","Q","R","S","T","U","V","W","X","Y","Z" >>

Lowers ==
    << "a","b","c","d","e","f","g","h","i","j","k","l","m",
       "n","o","p","q","r","s","t","u","v","w","x","y","z" >>

IsUpperCh(c) == \E k \in 1..26 : Uppers[k] = c

IsLowerCh(c) == \E k \in 1..26 : Lowers[k] = c

IndexIn(c, alphabet) == CHOOSE k \in 1..Len(alphabet) : alphabet[k] = c

\* ord(): the code point of a character (space is 32, "A" 65, "a" 97)
ord(c) ==
    IF IsUpperCh(c) THEN 64 + IndexIn(c, Uppers)
    ELSE IF IsLowerCh(c) THEN 96 + IndexIn(c, Lowers)
    ELSE 32

upperCh(c) == IF IsLowerCh(c) THEN Uppers[IndexIn(c, Lowers)] ELSE c

lowerCh(c) == IF IsUpperCh(c) THEN Lowers[IndexIn(c, Uppers)] ELSE c

\* str.upper()
upper(s) == [k \in 1..Len(s) |-> upperCh(s[k])]

\* str.lower()
lower(s) == [k \in 1..Len(s) |-> lowerCh(s[k])]

\* str.startswith(p)
startswith(s, p) == Len(p) <= Len(s) /\ SubSeq(s, 1, Len(p)) = p

\* s < t on str: lexicographic by code point, a proper prefix first
StrLess(s, t) ==
    LET n == IF Len(s) < Len(t) THEN Len(s) ELSE Len(t)
        diff == {k \in 1..n : s[k] # t[k]}
    IN  IF diff = {} THEN Len(s) < Len(t)
        ELSE LET k == CHOOSE d \in diff : \A e \in diff : d <= e
             IN  ord(s[k]) < ord(t[k])

Range(f) == {f[k] : k \in DOMAIN f}

SeqsUpTo(S, n) == UNION {[1..m -> S] : m \in 0..n}

EmptyDict == [k \in {} |-> <<>>]

---------------------------------------------------------------------------
(* build_daily_pool                                                        *)

excludedAsWritten(level_root) ==
    UNION {{level_root[k][j].word : j \in 1..Len(level_root[k])} :
           k \in DOMAIN level_root}

\* lines 126-129: every level word, of every bucket, uppercased
excluded(level_root) ==
    UNION {{upper(level_root[k][j].word) : j \in 1..Len(level_root[k])} :
           k \in DOMAIN level_root}

TargetLengthsShort == << "4", "5" >>

\* line 133: the buckets the pool is built from
TargetLengths == << "4", "5", "6" >>

\* line 134: valid_root.get(length, [])
ValidGet(valid_root, length) ==
    IF length \in DOMAIN valid_root THEN valid_root[length] ELSE <<>>

poolOfStopsAtMissing(valid_root, excl) ==
    UNION {{upper(valid_root[TargetLengths[n]][j]) :
                j \in 1..Len(valid_root[TargetLengths[n]])} \ excl :
           n \in {m \in 1..Len(TargetLengths) :
                    \A q \in 1..m : TargetLengths[q] \in DOMAIN valid_root}}

\* lines 132-138
poolOf(valid_root, excl) ==
    UNION {{upper(ValidGet(valid_root, TargetLengths[n])[j]) :
                j \in 1..Len(ValidGet(valid_root, TargetLengths[n]))} \ excl :
           n \in 1..Len(TargetLengths)}

\* lines 116-141, once both files are open
build_daily_pool(valid_root, level_root) ==
    poolOf(valid_root, excluded(level_root))

---------------------------------------------------------------------------
(* best_definition                                                         *)

PROPER_NOUN_PREFIXES ==
    << <<"u","n","i","t","e","d"," ","s","t","a","t","e","s">>,
       <<"e","n","g","l","i","s","h"," ">>,
       <<"b","r","i","t","i","s","h"," ">>,
       <<"u","s"," ">>,
       <<"a","n"," ","a","m","e","r","i","c","a","n">>,
       <<"a","m","e","r","i","c","a","n"," ">>,
       <<"s","c","o","t","t","i","s","h"," ">>,
       <<"f","r","e","n","c","h"," ">>,
       <<"g","e","r","m","a","n"," ">>,
       <<"s","w","i","s","s"," ">>,
       <<"i","t","a","l","i","a","n"," ">>,
       <<"d","u","t","c","h"," ">>,
       <<"s","p","a","n","i","s","h"," ">>,
       <<"g","r","e","e","k"," ">>,
       <<"r","o","m","a","n"," ">>,
       <<"l","a","t","i","n"," ">>,
       <<"d","a","n","i","s","h"," ">>,
       <<"i","r","i","s","h"," ">>,
       <<"j","e","w","i","s","h"," ">>,
       <<"a"," ","m","e","m","b","e","r"," ","o","f"," ">>,
       <<"a"," ","n","a","t","i","v","e"," ","o","f"," ">>,
       <<"a"," ","f","o","l","l","o","w","e","r"," ","o","f"," ">>,
       <<"a"," ","p","e","r","s","o","n"," ","w","h","o"," ">>,
       <<"a"," ","p","e","r","s","o","n"," ","b","o","r","n">> >>

\* "str | None": None is the empty tuple, a str s is <<s>>
None == <<>>

Some(s) == << s >>

\* line 95: wordnet.synsets(word); a word the database does not know has none
synsets(word) == IF word \in DOMAIN lexicon THEN lexicon[word] ELSE <<>>

IsDirectExact(word, s) == word \in s.lemmas

\* line 100: word in {l.name().lower() for l in s.lemmas()}
IsDirect(word, s) == word \in {lower(l) : l \in s.lemmas}

\* line 100
direct(word, syns) == SelectSeq(syns, LAMBDA s : IsDirect(word, s))

candidatesAll(word, syns) == syns

\* line 101: candidates = direct if direct else syns
candidates(word, syns) ==
    IF direct(word, syns) # <<>> THEN direct(word, syns) ELSE syns

Contains(s, p) ==
    \E k \in 0..(Len(s) - Len(p)) : SubSeq(s, k + 1, k + Len(p)) = p

looksProperAnywhere(defn) ==
    \E n \in 1..Len(PROPER_NOUN_PREFIXES) : Contains(lower(defn), PROPER_NOUN_PREFIXES[n])

\* line 106: any(defn.lower().startswith(p) for p in PROPER_NOUN_PREFIXES)
looksProper(defn) ==
    \E n \in 1..Len(PROPER_NOUN_PREFIXES) : startswith(lower(defn), PROPER_NOUN_PREFIXES[n])

\* lines 104-107: the rank of the first candidate the loop returns, 0 when it falls through
firstPlain(cands) ==
    IF \E k \in 1..Len(cands) : ~looksProper(cands[k].definition)
    THEN CHOOSE k \in 1..Len(cands) :
            /\ ~looksProper(cands[k].definition)
            /\ \A j \in 1..(k - 1) : looksProper(cands[j].definition)
    ELSE 0

fallbackNone(cands) == None

\* line 110: return candidates[0].definition()
fallback(cands) == Some(cands[1].definition)

\* lines 85-110
best_definition(word) ==
    LET syns == synsets(word)
    IN  IF syns = <<>> THEN None
        ELSE LET cands == candidates(word, syns)
                 k     == firstPlain(cands)
             IN  IF k # 0 THEN Some(cands[k].definition) ELSE fallback(cands)

---------------------------------------------------------------------------
(* main: sorted(), the definitions dict                                    *)

RECURSIVE sortedDescending(_)
sortedDescending(S) ==
    IF S = {} THEN <<>>
    ELSE LET m == CHOOSE x \in S : \A y \in S \ {x} : StrLess(y, x)
         IN  << m >> \o sortedDescending(S \ {m})

\* line 149: sorted(pool), ascending by code point
RECURSIVE sorted(_)
sorted(S) ==
    IF S = {} THEN <<>>
    ELSE LET m == CHOOSE x \in S : \A y \in S \ {x} : StrLess(x, y)
         IN  << m >> \o sorted(S \ {m})

\* (key, value) < (key, value) on tuples of str
ItemLess(p, q) == StrLess(p[1], q[1]) \/ (p[1] = q[1] /\ StrLess(p[2], q[2]))

\* line 167: sorted(definitions.items())
RECURSIVE sortedItems(_)
sortedItems(S) ==
    IF S = {} THEN <<>>
    ELSE LET m == CHOOSE x \in S : \A y \in S \ {x} : ItemLess(x, y)
         IN  << m >> \o sortedItems(S \ {m})

Keys(d) == {d[k][1] : k \in DOMAIN d}

\* d[key] = value on an insertion-ordered dict
DictSet(d, key, value) ==
    IF key \in Keys(d)
    THEN [k \in DOMAIN d |-> IF d[k][1] = key THEN << key, value >> ELSE d[k]]
    ELSE Append(d, << key, value >>)

\* line 167: dict(items), for items in order
RECURSIVE dict(_)
dict(items) ==
    IF items = <<>> THEN <<>>
    ELSE DictSet(dict(SubSeq(items, 1, Len(items) - 1)),
                 items[Len(items)][1], items[Len(items)][2])

\* line 167: ordered = dict(sorted(definitions.items()))
ordered(defs) == dict(sortedItems(Range(defs)))

truthyOrEmpty(defn) == defn # None

\* line 161: if defn
truthy(defn) == defn # None /\ defn[1] # <<>>

mergedInto(old, new) ==
    [exists |-> TRUE,
     data |-> new \o SelectSeq(old.data, LAMBDA it : it[1] \notin Keys(new))]

\* lines 169-171: open(OUTPUT_FILE, "w") truncates, json.dump writes the object
written(old, new) == [exists |-> TRUE, data |-> new]

---------------------------------------------------------------------------
(* the inputs                                                              *)

WCare == << "c","a","r","e" >>

WCareMixed == << "C","a","r","e" >>

WGlow == << "g","l","o","w" >>

WGlowUpper == << "G","L","O","W" >>

WAxe == << "a","x","e" >>

WHeed == << "h","e","e","d" >>

WZest == << "Z","E","S","T" >>

TPlain == << "h","e","e","d" >>

TProperUpper == << "U","S"," ","x" >>

TMentions == << "x"," ","u","s"," " >>

TEmpty == << >>

TStale == << "o","l","d" >>

MaxValidEntries == 2

MaxLevelEntries == 2

MaxSenses == 3

MaxRuns == 2

RECURSIVE BucketOf(_, _)
BucketOf(es, key) ==
    IF es = <<>> THEN <<>>
    ELSE (IF es[1][1] = key THEN << es[1][2] >> ELSE <<>>) \o BucketOf(Tail(es), key)

\* a JSON object of arrays: the entries es grouped by key, over the keys given
ToRoot(es, keys) == [k \in keys |-> BucketOf(es, k)]

Missing == [exists |-> FALSE, root |-> EmptyDict]

\* the word lists of at most n entries over keys x words; a bucket without
\* an entry is absent from the object, or present and empty
FilesOf(keys, words, n) ==
    UNION {{[exists |-> TRUE, root |-> ToRoot(es, {es[k][1] : k \in DOMAIN es})],
            [exists |-> TRUE, root |-> ToRoot(es, keys)]} :
           es \in SeqsUpTo(keys \X words, n)}

LevelObj(w) == [word |-> w, definition |-> TPlain]

PoolValidFiles ==
    {Missing} \cup FilesOf({"3", "4", "5", "6"}, {WCare, WGlowUpper, WAxe}, MaxValidEntries)

PoolLevelFiles ==
    {Missing} \cup FilesOf({"4", "7"}, {LevelObj(WGlow), LevelObj(WCareMixed)}, MaxLevelEntries)

MainValidFiles ==
    {Missing} \cup FilesOf({"4", "6"}, {WCare, WGlowUpper}, MaxValidEntries)

MainLevelFiles ==
    {Missing,
     [exists |-> TRUE, root |-> EmptyDict],
     [exists |-> TRUE, root |-> ToRoot(<< << "7", LevelObj(WGlow) >> >>, {"7"})]}

Sense(names, defn) == [lemmas |-> names, definition |-> defn]

MainSynsets ==
    { <<>>,
      << Sense({WCare, WGlow}, TPlain) >>,
      << Sense({WCare, WGlow}, TEmpty) >> }

MainLexicons == [{WCare, WGlow} -> MainSynsets]

DefSenses ==
    {Sense(names, defn) :
        names \in {{WCare}, {WCareMixed, WHeed}, {WHeed}},
        defn \in {TPlain, TProperUpper, TMentions, TEmpty}}

NoOutput == [exists |-> FALSE, data |-> <<>>]

StaleOutput ==
    [exists |-> TRUE, data |-> << << WZest, TStale >>, << upper(WCare), TStale >> >>]

---------------------------------------------------------------------------
(* the run                                                                 *)

\* line 148: pool = build_daily_pool(); open() of a missing file raises
BuildDailyPool ==
    /\ pc = "start"
    /\ IF validFile.exists /\ levelFile.exists
       THEN /\ pool' = build_daily_pool(validFile.root, levelFile.root)
            /\ pc' = "built"
       ELSE /\ pool' = pool
            /\ pc' = "fault"
    /\ UNCHANGED << validFile, levelFile, lexicon, outFile, words_sorted, i,
                    definitions, no_def_count, visited, wrote, runs, prev, defWord,
                    defResult >>

\* lines 149-154
SortPool ==
    /\ pc = "built"
    /\ words_sorted' = sorted(pool)
    /\ definitions' = <<>>
    /\ no_def_count' = 0
    /\ i' = 0
    /\ pc' = "loop"
    /\ UNCHANGED << validFile, levelFile, lexicon, outFile, pool, visited, wrote,
                    runs, prev, defWord, defResult >>

\* lines 156-164: one iteration of the loop
LoopStep ==
    /\ pc = "loop"
    /\ i < Len(words_sorted)
    /\ LET word == words_sorted[i + 1]
           defn == best_definition(lower(word))
       IN  IF truthy(defn)
           THEN /\ definitions' = DictSet(definitions, word, defn[1])
                /\ no_def_count' = no_def_count
           ELSE /\ definitions' = definitions
                /\ no_def_count' = no_def_count + 1
    /\ i' = i + 1
    /\ visited' = Append(visited, words_sorted[i + 1])
    /\ UNCHANGED << validFile, levelFile, lexicon, outFile, pc, pool, words_sorted,
                    wrote, runs, prev, defWord, defResult >>

\* lines 167-171
WriteOutput ==
    /\ pc = "loop"
    /\ i = Len(words_sorted)
    /\ outFile' = written(outFile, ordered(definitions))
    /\ wrote' = TRUE
    /\ pc' = "report"
    /\ UNCHANGED << validFile, levelFile, lexicon, pool, words_sorted, i,
                    definitions, no_def_count, visited, runs, prev, defWord,
                    defResult >>

\* lines 173-175: no_def_count/total divides by the pool's size
Report ==
    /\ pc = "report"
    /\ pc' = IF Len(words_sorted) = 0 THEN "fault" ELSE "done"
    /\ UNCHANGED << validFile, levelFile, lexicon, outFile, pool, words_sorted, i,
                    definitions, no_def_count, visited, wrote, runs, prev, defWord,
                    defResult >>

\* lines 178-179: the script is run again on the same files and database
Rerun ==
    /\ pc \in {"done", "fault"}
    /\ runs < MaxRuns
    /\ prev' = [wrote |-> wrote, pool |-> pool, data |-> outFile.data]
    /\ runs' = runs + 1
    /\ pc' = "start"
    /\ pool' = {}
    /\ words_sorted' = <<>>
    /\ i' = 0
    /\ definitions' = <<>>
    /\ no_def_count' = 0
    /\ visited' = <<>>
    /\ wrote' = FALSE
    /\ UNCHANGED << validFile, levelFile, lexicon, outFile, defWord, defResult >>

\* a call of best_definition(defWord)
Resolve ==
    /\ pc = "call"
    /\ defResult' = best_definition(defWord)
    /\ pc' = "return"
    /\ UNCHANGED << validFile, levelFile, lexicon, outFile, pool, words_sorted, i,
                    definitions, no_def_count, visited, wrote, runs, prev, defWord >>

Locals ==
    /\ pool = {}
    /\ words_sorted = <<>>
    /\ i = 0
    /\ definitions = <<>>
    /\ no_def_count = 0
    /\ visited = <<>>
    /\ wrote = FALSE
    /\ runs = 1
    /\ prev = [wrote |-> FALSE, pool |-> {}, data |-> outFile.data]
    /\ defResult = None

Init ==
    /\ validFile \in MainValidFiles
    /\ levelFile \in MainLevelFiles
    /\ lexicon \in MainLexicons
    /\ outFile \in {NoOutput, StaleOutput}
    /\ pc = "start"
    /\ defWord = <<>>
    /\ Locals

Next == BuildDailyPool \/ SortPool \/ LoopStep \/ WriteOutput \/ Report \/ Rerun

Spec == Init /\ [][Next]_vars

InitPool ==
    /\ validFile \in PoolValidFiles
    /\ levelFile \in PoolLevelFiles
    /\ lexicon = EmptyDict
    /\ outFile = NoOutput
    /\ pc = "start"
    /\ defWord = <<>>
    /\ Locals

NextPool == BuildDailyPool

SpecPool == InitPool /\ [][NextPool]_vars

InitDef ==
    /\ validFile = Missing
    /\ levelFile = Missing
    /\ lexicon \in {(WCare :> syns) : syns \in SeqsUpTo(DefSenses, MaxSenses)}
    /\ outFile = NoOutput
    /\ pc = "call"
    /\ defWord = WCare
    /\ Locals

NextDef == Resolve

SpecDef == InitDef /\ [][NextDef]_vars

---------------------------------------------------------------------------
(* build_daily_pool: the claims, under SpecPool                            *)

\* the (key, rank) places of a word list
Places(root) == UNION {{<< k, j >> : j \in 1..Len(root[k])} : k \in DOMAIN root}

LevelWords == {levelFile.root[pl[1]][pl[2]].word : pl \in Places(levelFile.root)}

ValidWordsIn(keys) ==
    {validFile.root[pl[1]][pl[2]] : pl \in {q \in Places(validFile.root) : q[1] \in keys}}

\* C1: for every entry of the level list, in any length bucket and in any
\* letter case, its uppercased word is not in the pool build_daily_pool returns.
C1_LevelWordsExcluded ==
    pc = "built" => \A w \in LevelWords : upper(w) \notin pool

\* C1's case: a level word of bucket "7", not written in uppercase, that the
\* valid list holds in uppercase under "4", "5" or "6", while the pool is not empty.
C1_Witness ==
    /\ pc = "built"
    /\ pool # {}
    /\ \E j \in 1..Len(ValidGet(levelFile.root, "7")) :
          LET w == levelFile.root["7"][j].word
          IN  /\ upper(w) # w
              /\ upper(w) \in ValidWordsIn({"4", "5", "6"})

\* C2: every word of the valid list under "4", "5" or "6" whose uppercased
\* form is not the uppercased word of a level entry is, uppercased, in the pool.
C2_ValidWordsIncluded ==
    pc = "built" =>
        \A w \in ValidWordsIn({"4", "5", "6"}) :
            (\A lw \in LevelWords : upper(lw) # upper(w)) => upper(w) \in pool

\* C2's case: a lowercase word of bucket "6" enters the pool in uppercase while
\* the level list excludes another word.
C2_Witness ==
    /\ pc = "built"
    /\ LevelWords # {}
    /\ \E w \in ValidWordsIn({"6"}) : upper(w) # w /\ upper(w) \in pool
    /\ \E w \in ValidWordsIn({"4", "5", "6"}) : upper(w) \notin pool

\* C3: every word of the pool is an uppercase word of length 4, 5 or 6 that
\* the valid list holds (in some letter case) under "4", "5" or "6"; no pool
\* word has another length or occurs only in other buckets.
C3_PoolWordsHaveLength456 ==
    pc = "built" =>
        \A p \in pool :
            /\ upper(p) = p
            /\ Len(p) \in {4, 5, 6}
            /\ \E w \in ValidWordsIn({"4", "5", "6"}) : upper(w) = p

---------------------------------------------------------------------------
(* best_definition: the claims, under SpecDef                              *)

\* the senses the database holds for the word of the call
Senses == lexicon[defWord]

\* the ranks of the senses that list the word, lowercased, among their lemmas
DirectRanks ==
    {k \in 1..Len(Senses) : \E l \in Senses[k].lemmas : lower(l) = defWord}

\* the ranks of the preferred senses: the direct ones, or all when none is direct
PreferredRanks == IF DirectRanks # {} THEN DirectRanks ELSE 1..Len(Senses)

\* the text begins, in any letter case, with an entry of PROPER_NOUN_PREFIXES
BeginsWithPrefix(text) ==
    \E n \in 1..Len(PROPER_NOUN_PREFIXES) :
        LET p == PROPER_NOUN_PREFIXES[n]
        IN  /\ Len(p) <= Len(text)
            /\ \A m \in 1..Len(p) : lowerCh(text[m]) = p[m]

\* the preferred ranks whose definition does not begin with a prefix
PlainRanks == {k \in PreferredRanks : ~BeginsWithPrefix(Senses[k].definition)}

Least(S) == CHOOSE k \in S : \A j \in S : k <= j

\* C4: best_definition returns None if and only if the database has no sense
\* for the word; when it has one, the result is the definition of one of them.
C4_NoneIffNoSenses ==
    pc = "return" =>
        /\ (defResult = None) <=> (Senses = <<>>)
        /\ Senses # <<>> =>
              \E k \in 1..Len(Senses) : defResult = Some(Senses[k].definition)

\* C4's case: every sense begins with a prefix, and a definition is returned
\* all the same.
C4_Witness ==
    /\ pc = "return"
    /\ Len(Senses) >= 2
    /\ PlainRanks = {}
    /\ defResult # None

\* C5: when a sense lists the word (lowercased) among its lemmas, the result is
\* the definition of such a direct sense, even when an indirect sense ranks
\* earlier or alone passes the prefix filter; with no direct sense the result
\* is chosen among all the senses.
C5_DirectPreferred ==
    pc = "return" /\ Senses # <<>> =>
        /\ DirectRanks # {} =>
              \E k \in DirectRanks : defResult = Some(Senses[k].definition)
        /\ DirectRanks = {} =>
              defResult = Some(Senses[IF PlainRanks # {} THEN Least(PlainRanks)
                                      ELSE 1].definition)

\* C5's case: an indirect sense ranks first and alone passes the prefix
\* filter; the only direct sense has a capitalised lemma; its definition is returned.
C5_Witness ==
    /\ pc = "return"
    /\ Len(Senses) >= 2
    /\ 1 \notin DirectRanks
    /\ ~BeginsWithPrefix(Senses[1].definition)
    /\ DirectRanks # {}
    /\ \A k \in DirectRanks :
          /\ defWord \notin Senses[k].lemmas
          /\ BeginsWithPrefix(Senses[k].definition)
    /\ defResult = Some(Senses[Least(DirectRanks)].definition)
    /\ defResult # Some(Senses[1].definition)

\* C6: among the preferred senses the result is the definition of the first,
\* in ranking order, whose text does not begin (in any letter case) with an
\* entry of PROPER_NOUN_PREFIXES; a text that holds a prefix further on is not skipped.
C6_FirstPlainSense ==
    pc = "return" /\ PlainRanks # {} =>
        defResult = Some(Senses[Least(PlainRanks)].definition)

\* C6's case: the first preferred sense begins with a prefix in capitals and is
\* skipped; the next one holds a prefix inside its text and is returned.
C6_Witness ==
    /\ pc = "return"
    /\ Len(Senses) >= 3
    /\ PlainRanks # {}
    /\ Least(PlainRanks) > Least(PreferredRanks)
    /\ Senses[Least(PreferredRanks)].definition = TProperUpper
    /\ Senses[Least(PlainRanks)].definition = TMentions
    /\ defResult = Some(TMentions)
    /\ \E k \in PreferredRanks : k > Least(PlainRanks) /\ Senses[k].definition = TPlain

---------------------------------------------------------------------------
(* main: the claims, under Spec                                            *)

\* the resolution of a pool word yields no definition, or an empty one
Unresolved(word) == synsets(lower(word)) = <<>> \/ best_definition(lower(word)) = Some(<<>>)

\* the keys of an ordered object are pool words and its values non-empty strings
WellFormedMap(d) ==
    \A k \in DOMAIN d : d[k][1] \in pool /\ d[k][2] # <<>>

\* C8: at every point of the loop and in the written output the keys of the
\* DefinitionMap are pool words and every value is a non-empty string; a pool
\* word whose resolution yields no definition, or an empty one, is omitted and
\* counted as a miss.
C8_KeysInPoolValuesNonEmpty ==
    /\ pc \in {"loop", "report", "done"} =>
          /\ WellFormedMap(definitions)
          /\ \A k \in 1..Len(visited) :
                Unresolved(visited[k]) <=> visited[k] \notin Keys(definitions)
          /\ no_def_count = Cardinality({k \in 1..Len(visited) : Unresolved(visited[k])})
    /\ wrote => WellFormedMap(outFile.data)

\* C8's case: the run has ended; one pool word had a sense with an empty
\* definition and is omitted and counted, another one is in the output.
C8_Witness ==
    /\ pc = "done"
    /\ no_def_count >= 1
    /\ Len(outFile.data) >= 1
    /\ \E w \in pool :
          /\ best_definition(lower(w)) = Some(<<>>)
          /\ w \notin Keys(outFile.data)

Ascending(ws) == \A a, b \in DOMAIN ws : a < b => StrLess(ws[a], ws[b])

KeySeq(d) == [k \in DOMAIN d |-> d[k][1]]

\* C9: the driver visits the pool words in ascending order, each exactly once,
\* and the keys of the written output ascend strictly, without duplicates.
C9_SortedVisitsSortedKeys ==
    /\ pc \in {"loop", "report", "done"} =>
          /\ Ascending(visited)
          /\ Range(visited) \subseteq pool
          /\ Len(visited) = i
    /\ wrote =>
          /\ Range(visited) = pool
          /\ Len(visited) = Cardinality(pool)
          /\ Ascending(KeySeq(outFile.data))

\* C9's case: the valid list names GLOW before care; both are visited, CARE
\* first, and both are keys of the output.
C9_Witness ==
    /\ pc = "done"
    /\ "4" \in DOMAIN validFile.root
    /\ validFile.root["4"] = << WGlowUpper, WCare >>
    /\ visited = << upper(WCare), WGlowUpper >>
    /\ KeySeq(outFile.data) = visited

\* C10: two runs on the same lists and database produce the same pool and the
\* same output, whatever the output file held before: the output is replaced,
\* and no key of the former content survives unless this run produces it.
C10_RerunSameOutput ==
    /\ wrote => outFile.exists /\ Range(outFile.data) = Range(definitions)
    /\ wrote => \A k \in DOMAIN outFile.data :
                    /\ outFile.data[k][1] \in Range(visited)
                    /\ best_definition(lower(outFile.data[k][1])) = Some(outFile.data[k][2])
    /\ runs >= 2 /\ pc # "start" => pool = prev.pool
    /\ runs >= 2 /\ wrote /\ prev.wrote => outFile.data = prev.data

\* C10's case: the second run has ended over an output the first run wrote
\* over a stale file, and the output holds a definition.
C10_Witness ==
    /\ runs = 2
    /\ pc = "done"
    /\ prev.wrote
    /\ Len(outFile.data) >= 1
    /\ WZest \notin Keys(outFile.data)

\* C11: a run either ends having written the output, or ends in a fault with
\* the output file unwritten; no run, whatever the lists (an empty pool
\* included) and also with an input file missing, writes the output file and
\* then ends in a fault.
C11_NoFaultAfterWrite ==
    /\ pc = "done" => wrote
    /\ pc = "fault" => ~wrote

---------------------------------------------------------------------------
(* build_daily_pool: a bucket missing from the valid list, under SpecPool  *)

\* the valid list with every bucket of "4", "5", "6" it lacks added as empty
Completed(root) ==
    [k \in DOMAIN root \cup {"4", "5", "6"} |->
        IF k \in DOMAIN root THEN root[k] ELSE <<>>]

\* the buckets of "4", "5", "6" the valid list lacks
MissingBuckets == {"4", "5", "6"} \ DOMAIN validFile.root

\* C12: when the valid list lacks a bucket of "4", "5", "6", build_daily_pool
\* does not fault: the bucket counts as empty and the pool is built from the
\* other buckets; a word listed in several buckets is in the pool once.
C12_MissingBucketIsEmpty ==
    pc # "start" /\ validFile.exists /\ levelFile.exists =>
        /\ pc = "built"
        /\ pool = build_daily_pool(Completed(validFile.root), levelFile.root)
        /\ pool = {upper(w) : w \in ValidWordsIn({"4", "5", "6"})}
                      \ {upper(lw) : lw \in LevelWords}
        /\ Cardinality(pool) <= Cardinality(ValidWordsIn({"4", "5", "6"}))

\* C12's case: care is listed under "4" and under "6", "5" is missing,
\* and the pool holds CARE once.
C12_Witness ==
    /\ pc = "built"
    /\ MissingBuckets = {"5"}
    /\ validFile.root["4"] = << WCare >>
    /\ validFile.root["6"] = << WCare >>
    /\ Cardinality(pool) = 1

===========================================================================
